---- MODULE Spec2Model ----
(***************************************************************************)
(* A model of buttercup's paginated search (src/buttercup/cogs/search.py): *)
(* the SearchCache class and the Search cog that paginates search results  *)
(* through reaction controls.                                              *)
(*                                                                         *)
(* The specifications share the variables:                                 *)
(*   SpecCache  drives a SearchCache directly (set with explicit times,    *)
(*              get), as a unit test of the class does;                    *)
(*   Spec       the Search cog: /search commands and reaction events, each *)
(*              handled to completion before the next event is taken;      *)
(*   SpecPages  the Search cog with one /search command and more result    *)
(*              counts;                                                    *)
(*   SpecConst  SpecPages with a remote whose results do not change;       *)
(*   SpecConc   the Search cog with one /search command and handlers that  *)
(*              interleave at their awaits;                                *)
(*   SpecSlice  the offset arithmetic of the display slice on its own;     *)
(*   SpecFetch  SpecConc with the request to the remote in two steps: the  *)
(*              call of blossom_api.get and its return;                    *)
(*   SpecNext   one /search command whose requester keeps pressing "next", *)
(*              with weak fairness on the steps of the handlers;           *)
(*   SpecDescr  create_result_description on its own, over short texts.    *)
(* Python's dict keeps insertion order, and sorted() is stable, so the     *)
(* cache is a sequence of entries in insertion order.                      *)
(***************************************************************************)
EXTENDS Integers, Sequences, FiniteSets, TLC

(* ------------------------------ bounds -------------------------------- *)
\* SpecCache: the keys of the cache are 1..MaxKeys
MaxKeys == 3
\* SpecCache: the capacity handed to SearchCache.__init__ is 0..MaxCacheCapacity
MaxCacheCapacity == 2
\* SpecCache: the explicit timestamps are 0..MaxTime
MaxTime == 2
\* Spec: the search messages have the ids 1..MaxMsgs
MaxMsgs == 2
\* Spec: the capacity of the cog's cache is drawn from 1..MaxCapacity
\* (Search.__init__ passes 10; the model scales it down so that evictions
\* happen within MaxMsgs messages)
MaxCapacity == 1
\* Spec: the clock stops at MaxClock
MaxClock == 1
\* SpecSlice: the target display pages are 0..MaxPage
MaxPage == 12
\* SpecSlice: the display page sizes are 1..MaxPageSize
MaxPageSize == 5
\* SpecSlice: a fetch page holds 1..MaxRatio display pages
MaxRatio == 5
\* SpecDescr: the transcriptions have up to MaxText characters
MaxText == 5
\* SpecDescr: the queries have 1..MaxQuery characters
MaxQuery == 2

(* -------------------------- program constants ------------------------- *)
first_page_emoji == "first"
previous_page_emoji == "previous"
next_page_emoji == "next"
last_page_emoji == "last"
\* Search.__init__: self.discord_page_size
discord_page_size == 5
\* Search.__init__: self.request_page_size = self.discord_page_size * 5
request_page_size == discord_page_size * 5

MsgIds == 1..MaxMsgs
CacheKeys == 1..MaxKeys
Times == 0..MaxTime
Users == {"u1", "u2"}
Queries == {"hello"}

\* Python's None
None == [tag |-> "None"]

\* Spec: the numbers of transcriptions the remote API may hold for the query
\* (none, or six display pages in two fetch windows)
Totals == {0, 26}
\* SpecPages: the same for the cog with a single search message
PageTotals == {0, 3, 23, 26, 31}
\* SpecFetch: the same for the cog whose remote call takes two steps
FetchTotals == {0, 8}
\* reaction emojis: the four controls and one that is no control
Emojis == {first_page_emoji, previous_page_emoji, next_page_emoji,
           last_page_emoji, "other"}
\* the id of a message that is no search message
ForeignMsg == MaxMsgs + 1

VARIABLES
    cache,      \* SearchCache.cache: entries in dict insertion order
    capacity,   \* SearchCache.capacity
    clock,      \* the current time, datetime.now()
    remote,     \* number of transcriptions the remote API holds for the query
    msgs,       \* the search messages: what each shows and its controls
    tasks,      \* the running handler coroutines and their local variables
    mono,       \* history: every set so far had a time above all earlier ones
    latest,     \* history, kept while mono: msg_id -> time of its latest set
                \* call, -1 if none
    hist,       \* history of the message submitted last: the "next" steps and
                \* the fetches since its submission
    lastOp      \* history: the last step taken and what it did

vars == <<cache, capacity, clock, remote, msgs, tasks, latest, mono, hist, lastOp>>

(* ----------------------------- SearchCache ---------------------------- *)
Keys(c) == {c[i].msg_id : i \in 1..Len(c)}

Index(c, msg_id) == CHOOSE i \in 1..Len(c) : c[i].msg_id = msg_id

\* insert x behind every element whose key is not greater: one step of a
\* stable sort on last_modified
RECURSIVE StableInsert(_, _)
StableInsert(x, s) ==
    IF s = <<>> THEN <<x>>
    ELSE IF s[Len(s)].last_modified <= x.last_modified THEN Append(s, x)
    ELSE Append(StableInsert(x, SubSeq(s, 1, Len(s) - 1)), s[Len(s)])

\* sorted(self.cache.items(), key=lambda x: x[1]["last_modified"])
RECURSIVE sorted(_)
sorted(s) ==
    IF s = <<>> THEN <<>>
    ELSE StableInsert(s[Len(s)], sorted(SubSeq(s, 1, Len(s) - 1)))

\* dict.pop(key)
pop(c, msg_id) == SelectSeq(c, LAMBDA e : e.msg_id # msg_id)

\* a _clean that drops the newest entry instead of the oldest
clean_newest(c, cap) ==
    IF Len(c) > cap THEN pop(c, sorted(c)[Len(c)].msg_id) ELSE c

\* a _clean that tolerates one entry too many
clean_late(c, cap) ==
    IF Len(c) > cap + 1 THEN pop(c, sorted(c)[1].msg_id) ELSE c

\* a _clean that evicts as soon as the cache is full
clean_full(c, cap) ==
    IF Len(c) >= cap /\ c # <<>> THEN pop(c, sorted(c)[1].msg_id) ELSE c

\* a _clean that drops the entry inserted last among the oldest ones
clean_last_tie(c, cap) ==
    IF Len(c) > cap
    THEN pop(c, c[CHOOSE i \in 1..Len(c) :
                    /\ \A j \in 1..Len(c) : c[i].last_modified <= c[j].last_modified
                    /\ \A j \in (i + 1)..Len(c) :
                            c[i].last_modified < c[j].last_modified].msg_id)
    ELSE c

\* SearchCache._clean
clean(c, cap) ==
    IF Len(c) > cap THEN pop(c, sorted(c)[1].msg_id) ELSE c

\* self.cache[msg_id] = {"last_modified": time, "element": entry}
assign(c, msg_id, entry, time) ==
    LET e == [msg_id |-> msg_id, last_modified |-> time, element |-> entry]
    IN  IF msg_id \in Keys(c)
        THEN [c EXCEPT ![Index(c, msg_id)] = e]
        ELSE Append(c, e)

\* a set that makes room before it stores the entry
set_clean_first(c, cap, msg_id, entry, time) ==
    assign(clean(c, cap), msg_id, entry, time)

\* SearchCache.set
set(c, cap, msg_id, entry, time) == clean(assign(c, msg_id, entry, time), cap)

\* a get that answers a miss with the oldest entry
get_fallback(c, msg_id) ==
    IF msg_id \in Keys(c) THEN c[Index(c, msg_id)].element
    ELSE IF c # <<>> THEN c[1].element ELSE None

\* a get that hands out the cache entry, not its element
get_entry(c, msg_id) ==
    IF msg_id \in Keys(c) THEN c[Index(c, msg_id)] ELSE None

\* SearchCache.get
get(c, msg_id) ==
    IF msg_id \in Keys(c) THEN c[Index(c, msg_id)].element ELSE None

(* ------------------- SearchCache driven directly ---------------------- *)
\* a SearchCacheItem as Search.search builds it, on display page p
Item(p) ==
    [query |-> "hello", cur_page |-> p, discord_user_id |-> "u1",
     response_data |-> None, request_page |-> 0]

CacheItems == {Item(0), Item(1)}

NoMsg == [content |-> "absent", author |-> "nobody", cur_page |-> 0,
          total_pages |-> 0, total_results |-> 0, items |-> <<>>, controls |-> {}]

IdleTask == [pc |-> "idle", kind |-> "none", msg |-> ForeignMsg,
             query |-> "hello", emoji |-> "other", user |-> "u1",
             cache_item |-> None, page_mod |-> 0, response_data |-> None]

NoHist == [msg |-> ForeignMsg, nexts |-> -1, fetches |-> 0, page |-> 0,
           page_size |-> 0]

NumTasks == 2
Tasks == 1..NumTasks

InitCommon ==
    /\ cache = <<>>
    /\ clock = 0
    /\ msgs = [m \in MsgIds |-> NoMsg]
    /\ tasks = [t \in Tasks |-> IdleTask]
    /\ latest = [m \in CacheKeys |-> -1]
    /\ mono = TRUE
    /\ hist = NoHist
    /\ lastOp = [op |-> "init"]

\* cache = SearchCache(capacity)
InitCache ==
    /\ InitCommon
    /\ capacity \in 0..MaxCacheCapacity
    /\ remote = 0

\* history: the keys and times that a set of msg_id at time has dropped on
\* the way from cache c to cache d
Evicted(c, d, msg_id, time) ==
    {x \in {<<c[i].msg_id, c[i].last_modified>> : i \in 1..Len(c)}
            \cup {<<msg_id, time>>} :
        /\ \A i \in 1..Len(d) : d[i].msg_id # x[1]
        /\ x[1] = msg_id => x[2] = time}

\* cache.set(msg_id, entry, time) with an explicit time
CacheSet(msg_id, entry, time) ==
    /\ cache' = set(cache, capacity, msg_id, entry, time)
    /\ mono' = (mono /\ \A m \in CacheKeys : latest[m] < time)
    /\ latest' = IF mono' THEN [latest EXCEPT ![msg_id] = time]
                          ELSE [m \in CacheKeys |-> -1]
    /\ lastOp' = [op |-> "set", msg_id |-> msg_id, entry |-> entry,
                  time |-> time, evicted |-> Evicted(cache, cache', msg_id, time)]
    /\ UNCHANGED <<capacity, clock, remote, msgs, tasks, hist>>

\* cache.get(msg_id)
CacheGet(msg_id) ==
    /\ lastOp' = [op |-> "get", msg_id |-> msg_id, ret |-> get(cache, msg_id)]
    /\ UNCHANGED <<cache, capacity, clock, remote, msgs, tasks, latest, mono, hist>>

NextCache ==
    \/ \E m \in CacheKeys, e \in CacheItems, t \in Times : CacheSet(m, e, t)
    \/ \E m \in CacheKeys : CacheGet(m)

SpecCache == InitCache /\ [][NextCache]_vars

(* ----------------------------- Search cog ----------------------------- *)
\* the default of SearchCache.set's time parameter, datetime.now(tz=pytz.utc):
\* Python evaluates it once, when the def statement runs at import, which is
\* when the clock of the model starts
set_default_time == 0

\* math.ceil(a / b) for a >= 0, b > 0
ceil(a, b) == (a + b - 1) \div b

\* self.blossom_api.get(path="transcription", params=data): the responses the
\* remote API may give for a 1-based page when it holds total transcriptions,
\* newest first, numbered 1..total. Any request may fail; a page behind the
\* last one is refused (404).
blossom_api_get(total, page, page_size) ==
    LET first == (page - 1) * page_size
        n == IF total - first < page_size THEN total - first ELSE page_size
    IN  {[status_code |-> 500, json |-> None]} \cup
        IF page = 1 \/ first < total
        THEN {[status_code |-> 200,
               json |-> [tag |-> "dict", count |-> total,
                         results |-> [i \in 1..n |-> first + i]]]}
        ELSE {[status_code |-> 404, json |-> None]}

\* (discord_page * self.discord_page_size) // self.request_page_size, for a
\* cog with the page sizes page_size and fetch_size
request_page_for(discord_page, page_size, fetch_size) ==
    (discord_page * page_size) \div fetch_size

\* request_page = (discord_page * self.discord_page_size) // self.request_page_size
request_page_of(discord_page) ==
    request_page_for(discord_page, discord_page_size, request_page_size)

\* an offset that takes the fetch window in display pages
result_offset_in_pages(discord_page, page_size, fetch_size) ==
    discord_page * page_size
        - request_page_for(discord_page, page_size, fetch_size) * page_size

\* result_offset = discord_offset - request_offset, for a cog with the page
\* sizes page_size and fetch_size
result_offset_for(discord_page, page_size, fetch_size) ==
    LET request_offset ==
            request_page_for(discord_page, page_size, fetch_size) * fetch_size
        discord_offset == discord_page * page_size
    IN  discord_offset - request_offset

\* a fetch decision that ignores the cached window
needs_request_always(cache_item, discord_page) == TRUE

\* a fetch decision that never leaves the cached window
needs_request_once(cache_item, discord_page) == cache_item.response_data = None

\* not cache_item["response_data"] or request_page != cache_item["request_page"]
needs_request(cache_item, discord_page) ==
    \/ cache_item.response_data = None
    \/ request_page_of(discord_page) # cache_item.request_page

\* an entry that keeps the request page of the item it was made from
new_item_old_page(cache_item, discord_page, response_data) ==
    [query |-> cache_item.query, cur_page |-> discord_page,
     discord_user_id |-> cache_item.discord_user_id,
     response_data |-> response_data,
     request_page |-> cache_item.request_page]

\* an entry with the query in the place of the user
new_item_mixed_up(cache_item, discord_page, response_data) ==
    [query |-> cache_item.query, cur_page |-> discord_page,
     discord_user_id |-> cache_item.query,
     response_data |-> response_data,
     request_page |-> request_page_of(discord_page)]

\* the entry that _search_from_cache writes for the target page
new_item(cache_item, discord_page, response_data) ==
    [query |-> cache_item.query, cur_page |-> discord_page,
     discord_user_id |-> cache_item.discord_user_id,
     response_data |-> response_data,
     request_page |-> request_page_of(discord_page)]

\* a step that stores the target page before it looks at the response
updated_cache_eager(c, cap, m, cache_item, discord_page, response) ==
    IF response.status_code # 200
    THEN set(c, cap, m, new_item(cache_item, discord_page, cache_item.response_data),
             set_default_time)
    ELSE IF response.json.count = 0 THEN c
    ELSE set(c, cap, m, new_item(cache_item, discord_page, response.json),
             set_default_time)

\* a step that stores the response whatever its count
updated_cache_empty(c, cap, m, cache_item, discord_page, response) ==
    IF response.status_code # 200 THEN c
    ELSE set(c, cap, m, new_item(cache_item, discord_page, response.json),
             set_default_time)

\* a step that stores the item it was handed before it asks the remote
updated_cache_initial(c, cap, m, cache_item, discord_page, response) ==
    LET c0 == set(c, cap, m, cache_item, set_default_time)
    IN  IF response.status_code # 200 THEN c0
        ELSE IF response.json.count = 0 THEN c0
        ELSE set(c0, cap, m, new_item(cache_item, discord_page, response.json),
                 set_default_time)

\* self.cache after _search_from_cache got the response (the cached one
\* counts as a 200): BlossomException and the no_results return come before
\* self.cache.set
updated_cache(c, cap, m, cache_item, discord_page, response) ==
    IF response.status_code # 200 THEN c
    ELSE IF response.json.count = 0 THEN c
    ELSE set(c, cap, m, new_item(cache_item, discord_page, response.json),
             set_default_time)

\* a slice that is empty unless it lies within the list
slice_strict(results, from, to) ==
    IF from < 0 \/ to > Len(results) THEN <<>> ELSE SubSeq(results, from + 1, to)

\* Python's list[from:to]: an index below 0 counts from the end, and both
\* are clipped to the list
slice(results, from, to) ==
    LET n == Len(results)
        clip(i) == IF i < 0 THEN (IF n + i < 0 THEN 0 ELSE n + i)
                   ELSE IF i < n THEN i ELSE n
    IN  SubSeq(results, clip(from) + 1, clip(to))

\* a description that numbers the results of each page from 1
page_items_from_one(response_data, discord_page) ==
    LET result_offset == result_offset_for(discord_page, discord_page_size,
                                           request_page_size)
        page_results == slice(response_data.results, result_offset,
                              result_offset + discord_page_size)
    IN  [i \in 1..Len(page_results) |-> [num |-> i, res |-> page_results[i]]]

\* the description of the embed: one (num, result) pair per rendered result
page_items(response_data, discord_page) ==
    LET discord_offset == discord_page * discord_page_size
        result_offset == result_offset_for(discord_page, discord_page_size,
                                           request_page_size)
        page_results == slice(response_data.results, result_offset,
                              result_offset + discord_page_size)
    IN  [i \in 1..Len(page_results) |->
            [num |-> discord_offset + i, res |-> page_results[i]]]

\* controls that offer next and last on the last page too
emoji_controls_off_by_one(discord_page, total_discord_pages) ==
    (IF discord_page > 0
        THEN {first_page_emoji, previous_page_emoji} ELSE {}) \cup
    (IF discord_page <= total_discord_pages - 1
        THEN {next_page_emoji, last_page_emoji} ELSE {})

\* emoji_controls: which controls are appropriate
emoji_controls(discord_page, total_discord_pages) ==
    (IF discord_page > 0
        THEN {first_page_emoji, previous_page_emoji} ELSE {}) \cup
    (IF discord_page < total_discord_pages - 1
        THEN {next_page_emoji, last_page_emoji} ELSE {})

\* on_reaction_add: last_page
last_page_of(cache_item) ==
    IF cache_item.response_data # None
    THEN ceil(cache_item.response_data.count, discord_page_size) - 1
    ELSE 0

\* a check that lets next and last through on the last page
valid_control_lax(cache_item, emoji) ==
    LET discord_page == cache_item.cur_page
        last_page == last_page_of(cache_item)
    IN  \/ emoji = first_page_emoji /\ discord_page > 0
        \/ emoji = previous_page_emoji /\ discord_page > 0
        \/ emoji = next_page_emoji /\ discord_page <= last_page
        \/ emoji = last_page_emoji /\ discord_page <= last_page

\* on_reaction_add: is the emoji a control that applies on the entry's page
valid_control(cache_item, emoji) ==
    LET discord_page == cache_item.cur_page
        last_page == last_page_of(cache_item)
    IN  \/ emoji = first_page_emoji /\ discord_page > 0
        \/ emoji = previous_page_emoji /\ discord_page > 0
        \/ emoji = next_page_emoji /\ discord_page < last_page
        \/ emoji = last_page_emoji /\ discord_page < last_page

\* a page_mod whose "last" is the last page, not the distance to it
page_mod_of_absolute(cache_item, emoji) ==
    LET last_page == last_page_of(cache_item)
    IN  IF emoji = first_page_emoji THEN -cache_item.cur_page
        ELSE IF emoji = previous_page_emoji THEN -1
        ELSE IF emoji = next_page_emoji THEN 1
        ELSE last_page

\* on_reaction_add: page_mod, for a valid control
page_mod_of(cache_item, emoji) ==
    LET discord_page == cache_item.cur_page
        last_page == last_page_of(cache_item)
    IN  IF emoji = first_page_emoji THEN -cache_item.cur_page
        ELSE IF emoji = previous_page_emoji THEN -1
        ELSE IF emoji = next_page_emoji THEN 1
        ELSE last_page - discord_page

\* a handler that lets every user paginate
is_requester_anyone(cache_item, user_id) == TRUE

\* on_reaction_add: cache_item["discord_user_id"] != user.id, negated
is_requester(cache_item, user_id) == cache_item.discord_user_id = user_id

\* bot = Search(bot, blossom_api): an empty cache, no message, no handler
Init ==
    /\ InitCommon
    /\ capacity \in 1..MaxCapacity
    /\ remote \in Totals

AllIdle == \A t \in Tasks : tasks[t].pc = "idle"

\* the handler coroutine that takes the next event
FreeTask == CHOOSE t \in Tasks : tasks[t].pc = "idle" /\ \A u \in 1..(t - 1) : tasks[u].pc # "idle"

Created == {m \in MsgIds : msgs[m].content # "absent"}

\* datetime.now() when an event is taken: later than at the event before
now == IF clock < MaxClock THEN clock + 1 ELSE clock

\* transcriptions matching the query are added to or removed from the remote
RemoteChange(n) ==
    /\ n # remote
    /\ remote' = n
    /\ hist' = NoHist
    /\ UNCHANGED <<cache, capacity, clock, msgs, tasks, latest, mono, lastOp>>

\* Search.search up to its first await: msg = await ctx.send(...)
search(t, query, author_id) ==
    /\ tasks[t].pc = "idle"
    /\ \E m \in MsgIds :
        /\ msgs[m].content = "absent"
        /\ \A k \in 1..(m - 1) : msgs[k].content # "absent"
        /\ msgs' = [msgs EXCEPT ![m] = [NoMsg EXCEPT !.content = "getting_search",
                                                     !.author = author_id]]
        /\ tasks' = [tasks EXCEPT ![t] =
                [IdleTask EXCEPT !.pc = "send", !.kind = "search", !.msg = m,
                                 !.query = query, !.user = author_id]]
        /\ lastOp' = [op |-> "search", msg |-> m]
    /\ clock' = now
    /\ UNCHANGED <<cache, capacity, remote, latest, mono, hist>>

\* a step that leaves the controls of the last page on the message
clear_reactions_skipped(ms, m) == ms

\* await msg.clear_reactions(): clear previous control emojis
clear_reactions(ms, m) == [ms EXCEPT ![m].controls = {}]

\* Search.search after ctx.send: the simulated cache item, then
\* _search_from_cache up to its first await, msg.clear_reactions()
search_resume(t) ==
    /\ tasks[t].pc = "send"
    /\ tasks' = [tasks EXCEPT ![t] =
            [@ EXCEPT !.pc = "clear",
                      !.cache_item = [query |-> tasks[t].query, cur_page |-> 0,
                                      discord_user_id |-> tasks[t].user,
                                      response_data |-> None,
                                      request_page |-> 0],
                      !.page_mod = 0]]
    /\ msgs' = clear_reactions(msgs, tasks[t].msg)
    /\ lastOp' = [op |-> "search_resume", msg |-> tasks[t].msg]
    /\ UNCHANGED <<cache, capacity, clock, remote, latest, mono, hist>>

\* history: the control is not offered on the item's page (section 4.3 of
\* the specification)
NotOffered(item, e) ==
    LET p == item.cur_page
        pages == IF item.response_data = None THEN 1
                 ELSE (item.response_data.count + 4) \div 5
    IN  \/ e \in {first_page_emoji, previous_page_emoji} /\ ~(p > 0)
        \/ e \in {next_page_emoji, last_page_emoji} /\ ~(p < pages - 1)

\* history: what kind of reaction event (m, emoji, user_id) is in cache c
EventKind(c, m, emoji, user_id) ==
    IF \A i \in 1..Len(c) : c[i].msg_id # m THEN "no entry"
    ELSE LET item == c[CHOOSE i \in 1..Len(c) : c[i].msg_id = m].element
         IN  IF item.discord_user_id # user_id THEN "other user"
             ELSE IF emoji \notin {first_page_emoji, previous_page_emoji,
                                   next_page_emoji, last_page_emoji}
             THEN "no control"
             ELSE IF NotOffered(item, emoji) THEN "not offered"
             ELSE "offered"

\* Search.on_reaction_add, and for a valid control of the requester
\* _search_from_cache up to its first await, msg.clear_reactions()
on_reaction_add(t, m, emoji, user_id) ==
    LET cache_item == get(cache, m)
        returns == IF cache_item = None THEN TRUE
                   ELSE IF ~is_requester(cache_item, user_id) THEN TRUE
                   ELSE ~valid_control(cache_item, emoji)
    IN  /\ tasks[t].pc = "idle"
        /\ clock' = now
        /\ IF returns
           THEN /\ lastOp' = [op |-> "on_reaction_add", msg |-> m,
                              event |-> EventKind(cache, m, emoji, user_id),
                              result |-> "return"]
                /\ UNCHANGED <<msgs, tasks>>
           ELSE /\ tasks' = [tasks EXCEPT ![t] =
                        [IdleTask EXCEPT !.pc = "clear", !.kind = "reaction",
                                         !.msg = m, !.query = cache_item.query,
                                         !.emoji = emoji, !.user = user_id,
                                         !.cache_item = cache_item,
                                         !.page_mod = page_mod_of(cache_item, emoji)]]
                /\ msgs' = clear_reactions(msgs, m)
                /\ lastOp' = [op |-> "on_reaction_add", msg |-> m,
                              event |-> EventKind(cache, m, emoji, user_id),
                              result |-> "paginate"]
        /\ UNCHANGED <<cache, capacity, remote, latest, mono, hist>>

\* history: task t fails or finds no results
hist_failed(t) == IF tasks[t].msg = hist.msg THEN NoHist ELSE hist

\* history: the step of task t on its message succeeded
hist_after(t, fetched, request_page) ==
    LET m == tasks[t].msg
        f == IF fetched
             THEN [hist EXCEPT !.fetches = @ + 1, !.page = request_page + 1,
                               !.page_size = request_page_size]
             ELSE hist
    IN  IF tasks[t].kind = "search"
        THEN [msg |-> m, nexts |-> 0, fetches |-> 1, page |-> request_page + 1,
              page_size |-> request_page_size]
        ELSE IF m # hist.msg THEN hist
        ELSE IF tasks[t].emoji = next_page_emoji THEN [f EXCEPT !.nexts = @ + 1]
        ELSE NoHist

\* _search_from_cache from the fetch decision to msg.edit, for a handler
\* at the position at: the response is the cached one or what the remote
\* answers
search_from_cache_at(t, at) ==
    LET m == tasks[t].msg
        cache_item == tasks[t].cache_item
        discord_page == cache_item.cur_page + tasks[t].page_mod
        query == cache_item.query
        request_page == request_page_of(discord_page)
        fetch == needs_request(cache_item, discord_page)
    IN  /\ tasks[t].pc = at
        /\ \E response \in
                IF fetch
                THEN blossom_api_get(remote, request_page + 1, request_page_size)
                ELSE {[status_code |-> 200, json |-> cache_item.response_data]} :
            LET response_data == response.json
            IN  /\ cache' = updated_cache(cache, capacity, m, cache_item,
                                          discord_page, response)
                /\ IF response.status_code # 200
                   THEN \* raise BlossomException(response)
                        /\ tasks' = [tasks EXCEPT ![t] = IdleTask]
                        /\ hist' = hist_failed(t)
                        /\ lastOp' = [op |-> "search_from_cache", msg |-> m,
                                      fetched |-> fetch, result |-> "BlossomException",
                                      kind |-> tasks[t].kind, emoji |-> tasks[t].emoji,
                                      target |-> discord_page]
                        /\ UNCHANGED msgs
                   ELSE IF response_data.count = 0
                   THEN \* msg.edit(content=no_results), return
                        /\ msgs' = [msgs EXCEPT ![m].content = "no_results"]
                        /\ tasks' = [tasks EXCEPT ![t] = IdleTask]
                        /\ hist' = hist_failed(t)
                        /\ lastOp' = [op |-> "search_from_cache", msg |-> m,
                                      fetched |-> fetch, result |-> "no_results",
                                      kind |-> tasks[t].kind]
                   ELSE \* self.cache.set(msg.id, {...}), msg.edit(content, embed)
                        /\ msgs' = [msgs EXCEPT ![m] =
                               [@ EXCEPT !.content = "embed_message",
                                         !.cur_page = discord_page + 1,
                                         !.total_pages = ceil(response_data.count,
                                                              discord_page_size),
                                         !.total_results = response_data.count,
                                         !.items = page_items(response_data,
                                                              discord_page)]]
                        /\ tasks' = [tasks EXCEPT ![t] =
                               [@ EXCEPT !.pc = "edit",
                                         !.response_data = response_data]]
                        /\ hist' = hist_after(t, fetch, request_page)
                        /\ lastOp' = [op |-> "search_from_cache", msg |-> m,
                                      fetched |-> fetch, result |-> "set"]
        /\ UNCHANGED <<capacity, clock, remote, latest, mono>>

\* _search_from_cache from the fetch decision to msg.edit, taken in one
\* step: self.blossom_api.get is an ordinary call, not awaited, so that no
\* other handler runs between the decision and the response
search_from_cache(t) == search_from_cache_at(t, "clear")

\* _search_from_cache after msg.edit: the controls of the new page
add_reactions(t) ==
    LET m == tasks[t].msg
        discord_page == tasks[t].cache_item.cur_page + tasks[t].page_mod
        total_discord_pages == ceil(tasks[t].response_data.count, discord_page_size)
    IN  /\ tasks[t].pc = "edit"
        /\ msgs' = [msgs EXCEPT ![m].controls =
                        @ \cup emoji_controls(discord_page, total_discord_pages)]
        /\ tasks' = [tasks EXCEPT ![t] = IdleTask]
        /\ lastOp' = [op |-> "add_reactions", msg |-> m]
        /\ UNCHANGED <<cache, capacity, clock, remote, latest, mono, hist>>

\* the two users issue the /search commands in turn
NextAuthor(u) == u = IF Cardinality(Created) % 2 = 0 THEN "u1" ELSE "u2"

\* the events are handled one at a time: a handler starts when none runs
Next ==
    \/ \E n \in Totals : RemoteChange(n)
    \/ AllIdle /\ \E q \in Queries, u \in Users :
            NextAuthor(u) /\ search(FreeTask, q, u)
    \/ AllIdle /\ \E m \in Created \cup {ForeignMsg}, e \in Emojis, u \in Users :
            on_reaction_add(FreeTask, m, e, u)
    \/ \E t \in Tasks : search_resume(t)
    \/ \E t \in Tasks : search_from_cache(t)
    \/ \E t \in Tasks : add_reactions(t)

Spec == Init /\ [][Next]_vars

\* the cog with a single search message
InitPages ==
    /\ InitCommon
    /\ capacity \in 1..MaxCapacity
    /\ remote \in PageTotals

NextPages ==
    \/ \E n \in PageTotals : RemoteChange(n)
    \/ AllIdle /\ Created = {} /\ \E q \in Queries, u \in Users : search(FreeTask, q, u)
    \/ AllIdle /\ \E m \in Created \cup {ForeignMsg}, e \in Emojis, u \in Users :
            on_reaction_add(FreeTask, m, e, u)
    \/ \E t \in Tasks : search_resume(t)
    \/ \E t \in Tasks : search_from_cache(t)
    \/ \E t \in Tasks : add_reactions(t)

SpecPages == InitPages /\ [][NextPages]_vars

\* the cog with a single search message and a remote that keeps its
\* transcriptions
NextConst ==
    \/ AllIdle /\ Created = {} /\ \E q \in Queries, u \in Users : search(FreeTask, q, u)
    \/ AllIdle /\ \E m \in Created \cup {ForeignMsg}, e \in Emojis, u \in Users :
            on_reaction_add(FreeTask, m, e, u)
    \/ \E t \in Tasks : search_resume(t)
    \/ \E t \in Tasks : search_from_cache(t)
    \/ \E t \in Tasks : add_reactions(t)

SpecConst == InitPages /\ [][NextConst]_vars

SomeIdle == \E t \in Tasks : tasks[t].pc = "idle"

\* the cog with a single search message whose handlers interleave: discord.py
\* runs every event in a task of its own, and a handler gives way to the
\* others at each await
NextConc ==
    \/ \E n \in Totals : RemoteChange(n)
    \/ SomeIdle /\ Created = {} /\ \E q \in Queries, u \in Users : search(FreeTask, q, u)
    \/ SomeIdle /\ \E m \in Created \cup {ForeignMsg}, e \in Emojis, u \in Users :
            on_reaction_add(FreeTask, m, e, u)
    \/ \E t \in Tasks : search_resume(t)
    \/ \E t \in Tasks : search_from_cache(t)
    \/ \E t \in Tasks : add_reactions(t)

SpecConc == Init /\ [][NextConc]_vars

\* the offset of the display slice, computed for a target page and a pair
\* of page sizes as _search_from_cache computes it
InitSlice ==
    /\ InitCommon
    /\ capacity = MaxCapacity
    /\ remote = 0

Slice(discord_page, page_size, ratio) ==
    /\ lastOp' = [op |-> "slice", discord_page |-> discord_page,
                  page_size |-> page_size, fetch_size |-> page_size * ratio,
                  result_offset |-> result_offset_for(discord_page, page_size,
                                                      page_size * ratio)]
    /\ UNCHANGED <<cache, capacity, clock, remote, msgs, tasks, latest, mono, hist>>

NextSlice ==
    \E discord_page \in 0..MaxPage, page_size \in 1..MaxPageSize,
       ratio \in 1..MaxRatio : Slice(discord_page, page_size, ratio)

SpecSlice == InitSlice /\ [][NextSlice]_vars

\* the thread of the event loop is inside self.blossom_api.get: the call is
\* not awaited, and until it returns the loop runs no handler
Blocked == \E t \in Tasks : tasks[t].pc = "fetch"

\* _search_from_cache calls self.blossom_api.get: the request is on its way
fetch_issue(t) ==
    /\ ~Blocked
    /\ tasks[t].pc = "clear"
    /\ needs_request(tasks[t].cache_item,
                     tasks[t].cache_item.cur_page + tasks[t].page_mod)
    /\ tasks' = [tasks EXCEPT ![t].pc = "fetch"]
    /\ lastOp' = [op |-> "fetch_issue", msg |-> tasks[t].msg]
    /\ UNCHANGED <<cache, capacity, clock, remote, msgs, latest, mono, hist>>

\* self.blossom_api.get returns and _search_from_cache goes on to msg.edit
fetch_return(t) == search_from_cache_at(t, "fetch")

\* _search_from_cache goes on with the cached response
reuse(t) ==
    /\ ~Blocked
    /\ tasks[t].pc = "clear"
    /\ ~needs_request(tasks[t].cache_item,
                      tasks[t].cache_item.cur_page + tasks[t].page_mod)
    /\ search_from_cache(t)

\* the event loop starts a handler for a reaction event
react(m, emoji, user_id) ==
    /\ ~Blocked
    /\ SomeIdle
    /\ on_reaction_add(FreeTask, m, emoji, user_id)

\* the cog with handlers that interleave at their awaits, the call of the
\* remote shown as two steps
NextFetch ==
    \/ ~Blocked /\ SomeIdle /\ \E q \in Queries, u \in Users :
            NextAuthor(u) /\ search(FreeTask, q, u)
    \/ \E m \in Created \cup {ForeignMsg}, e \in Emojis, u \in Users : react(m, e, u)
    \/ \E t \in Tasks : ~Blocked /\ search_resume(t)
    \/ \E t \in Tasks : fetch_issue(t)
    \/ \E t \in Tasks : fetch_return(t)
    \/ \E t \in Tasks : reuse(t)
    \/ \E t \in Tasks : ~Blocked /\ add_reactions(t)

\* the cog and a remote that holds no transcription or two display pages
InitFetch ==
    /\ InitCommon
    /\ capacity \in 1..MaxCapacity
    /\ remote \in FetchTotals

SpecFetch == InitFetch /\ [][NextFetch]_vars

\* the requester of a message adds the "next" reaction
press_next(m) ==
    /\ AllIdle
    /\ on_reaction_add(FreeTask, m, next_page_emoji, msgs[m].author)

\* another user than the requester adds a reaction to a message
stray(m, emoji, user_id) ==
    /\ AllIdle
    /\ user_id # msgs[m].author
    /\ on_reaction_add(FreeTask, m, emoji, user_id)

\* _search_from_cache with a fetch that succeeds, if there is one
succeed(t) ==
    /\ search_from_cache(t)
    /\ lastOp'.result # "BlossomException"

\* the cog with a single search message that has results, a remote that
\* keeps them and answers every fetch, and a requester who presses "next"
InitNext ==
    /\ InitCommon
    /\ capacity \in 1..MaxCapacity
    /\ remote \in PageTotals \ {0}

NextNext ==
    \/ AllIdle /\ Created = {} /\ \E q \in Queries, u \in Users : search(FreeTask, q, u)
    \/ \E m \in Created : press_next(m)
    \/ \E m \in Created, e \in Emojis, u \in Users : stray(m, e, u)
    \/ \E t \in Tasks : search_resume(t)
    \/ \E t \in Tasks : succeed(t)
    \/ \E t \in Tasks : add_reactions(t)

\* the event loop runs every handler that can go on, and the requester
\* keeps pressing "next"
FairNext ==
    /\ WF_vars(\E m \in Created : press_next(m))
    /\ WF_vars(\E t \in Tasks : search_resume(t))
    /\ WF_vars(\E t \in Tasks : succeed(t))
    /\ WF_vars(\E t \in Tasks : add_reactions(t))

SpecNext == InitNext /\ [][NextNext]_vars /\ FairNext

(* ---------------------- create_result_description -------------------- *)
\* The characters of the texts: a letter in lower and upper case, the
\* letter U+00DF ("sz"), whose casefold() is two characters, and the line
\* break ("nl"). A str is a sequence of characters.
QueryChars == {"s", "S", "sz"}
TextChars == QueryChars \cup {"nl"}

\* the strings over chars of the lengths from..to
Strings(chars, from, to) == UNION {[1..n -> chars] : n \in from..to}

\* create_result_description: max_occurrences
max_occurrences == 4

\* str.casefold() of one character
fold(ch) ==
    IF ch = "S" THEN <<"s">> ELSE IF ch = "sz" THEN <<"s", "s">> ELSE <<ch>>

\* str.casefold()
RECURSIVE casefold(_)
casefold(str) ==
    IF str = <<>> THEN <<>> ELSE fold(Head(str)) \o casefold(Tail(str))

\* str.find(sub, start): the lowest 0-based index from start on where sub
\* begins, -1 if there is none
find(str, sub, start) ==
    LET at(i) == /\ i + Len(sub) <= Len(str)
                 /\ \A k \in 1..Len(sub) : str[i + k] = sub[k]
        hits == {i \in start..Len(str) : at(i)}
    IN  IF hits = {} THEN -1
        ELSE CHOOSE i \in hits : \A j \in hits : i <= j

\* str.count(sub) from start on, for a sub that is not empty: occurrences
\* that do not overlap
RECURSIVE count_from(_, _, _)
count_from(str, sub, start) ==
    LET pos == find(str, sub, start)
    IN  IF pos < 0 THEN 0 ELSE 1 + count_from(str, sub, pos + Len(sub))

\* str.count(sub)
count(str, sub) == count_from(str, sub, 0)

\* str.splitlines()
RECURSIVE splitlines(_)
splitlines(str) ==
    IF str = <<>> THEN <<>>
    ELSE IF \E k \in 1..Len(str) : str[k] = "nl"
    THEN LET k == CHOOSE i \in 1..Len(str) :
                    str[i] = "nl" /\ \A j \in 1..(i - 1) : str[j] # "nl"
         IN  <<SubSeq(str, 1, k - 1)>> \o splitlines(SubSeq(str, k + 1, Len(str)))
    ELSE <<str>>

\* the while loop of create_result_description over one line: cur_count
\* after it
RECURSIVE occurrences(_, _, _, _)
occurrences(line, query, pos, cur_count) ==
    IF pos >= 0 /\ cur_count < max_occurrences
    THEN occurrences(line, query,
                find(casefold(line), casefold(query), pos + Len(query)),
                cur_count + 1)
    ELSE cur_count

\* the for loop of create_result_description from line i on: cur_count
\* after it
RECURSIVE scan(_, _, _, _)
scan(lines, i, query, cur_count) ==
    IF i > Len(lines) THEN cur_count
    ELSE LET c == occurrences(lines[i], query,
                        find(casefold(lines[i]), casefold(query), 0), cur_count)
         IN  IF c >= max_occurrences THEN c ELSE scan(lines, i + 1, query, c)

\* create_result_description: the number of occurrences the description
\* shows, total_occurrences, and the count of the more_occurrences note,
\* -1 without the note
create_result_description(transcription, query) ==
    LET total_occurrences == count(casefold(transcription), casefold(query))
        cur_count == scan(splitlines(transcription), 1, query, 0)
    IN  [shown |-> cur_count, total |-> total_occurrences,
         more |-> IF cur_count < total_occurrences
                  THEN total_occurrences - cur_count ELSE -1]

\* the result of a search: its transcription and the query, drawn from the
\* strings of the bounded lengths
InitDescr ==
    /\ cache = <<>>
    /\ capacity = MaxCapacity
    /\ clock = 0
    /\ remote = 0
    /\ msgs = [m \in MsgIds |-> NoMsg]
    /\ tasks = [t \in Tasks |-> IdleTask]
    /\ latest = [m \in CacheKeys |-> -1]
    /\ mono = TRUE
    /\ hist = NoHist
    /\ \E transcription \in Strings(TextChars, 0, MaxText),
          query \in Strings(QueryChars, 1, MaxQuery) :
            lastOp = [op |-> "result", text |-> transcription, query |-> query]

Describe ==
    /\ lastOp.op = "result"
    /\ lastOp' = [op |-> "describe", text |-> lastOp.text, query |-> lastOp.query,
                  result |-> create_result_description(lastOp.text, lastOp.query)]
    /\ UNCHANGED <<cache, capacity, clock, remote, msgs, tasks, latest, mono, hist>>

NextDescr == Describe

SpecDescr == InitDescr /\ [][NextDescr]_vars

(* ------------------------------ claims -------------------------------- *)
\* the keys that have been set, while the timestamps increase
SetKeys == {k \in CacheKeys : latest[k] >= 0}

\* C1: after every set call the cache holds at most capacity entries
C1_EvictionBound == Len(cache) <= capacity

\* a set that evicted: a key set before is gone and the cache is full
C1_Witness ==
    /\ lastOp.op = "set"
    /\ mono
    /\ capacity = MaxCacheCapacity
    /\ Len(cache) = capacity
    /\ \E k \in SetKeys : k \notin Keys(cache)

\* the keys whose latest set is among the capacity most recent ones
TopKeys ==
    {k \in SetKeys :
        Cardinality({j \in SetKeys : latest[j] > latest[k]}) < capacity}

\* C2: while the timestamps of the set calls strictly increase, the cache
\* holds exactly the min(capacity, number of keys) keys set most recently,
\* each with the timestamp of its latest set
C2_LruCorrectness ==
    mono =>
        /\ Keys(cache) = TopKeys
        /\ Len(cache) = IF Cardinality(SetKeys) < capacity
                        THEN Cardinality(SetKeys) ELSE capacity
        /\ \A i \in 1..Len(cache) : cache[i].last_modified = latest[cache[i].msg_id]

\* capacity + 1 keys set with increasing times: the first one set is gone,
\* the others are there
C2_Witness ==
    /\ mono
    /\ capacity >= 1
    /\ Cardinality(SetKeys) = capacity + 1
    /\ \E k \in SetKeys :
        /\ \A j \in SetKeys : latest[k] <= latest[j]
        /\ Keys(cache) = SetKeys \ {k}

\* C3: a cache write of the cog stores the current time as last_modified
C3_WriteStoresNow ==
    (lastOp.op = "search_from_cache" /\ lastOp.result = "set") =>
        /\ lastOp.msg \in Keys(cache)
        /\ cache[Index(cache, lastOp.msg)].last_modified = clock

\* C4: the step of _search_from_cache that follows clear_reactions asks the
\* remote iff the item has no response data or the target display page lies
\* in another fetch window than the cached one
C4_FetchIff ==
    [][\A t \in Tasks :
        (tasks[t].pc = "clear" /\ tasks'[t].pc # "clear") =>
            LET item == tasks[t].cache_item
                target == item.cur_page + tasks[t].page_mod
            IN  /\ lastOp'.op = "search_from_cache"
                /\ lastOp'.fetched <=>
                    \/ item.response_data = None
                    \/ (target * 5) \div 25 # item.request_page]_vars

\* "next" inside the fetch window of the cached response was rendered
\* without a fetch
C4_Witness ==
    /\ lastOp.op = "search_from_cache"
    /\ lastOp.result = "set"
    /\ ~lastOp.fetched
    /\ \E t \in Tasks :
        /\ tasks[t].pc = "edit"
        /\ tasks[t].emoji = next_page_emoji
        /\ tasks[t].page_mod = 1

\* C5: after the submission and n accepted "next" steps on a message, with
\* more than 25 results all along, the remote was asked n div 5 + 1 times,
\* last for page n div 5 + 1 with page size 25
C5_EndToEnd ==
    (hist.nexts >= 0 /\ remote > 25) =>
        /\ hist.fetches = hist.nexts \div 5 + 1
        /\ hist.page = hist.nexts \div 5 + 1
        /\ hist.page_size = 25

\* the fifth "next" has been handled: two fetches, the second for page 2
C5_Witness ==
    /\ AllIdle
    /\ remote > 25
    /\ hist.nexts = 5
    /\ hist.fetches = 2
    /\ hist.page = 2

\* the controls of display page p of total results
ControlsFor(p, total) ==
    {e \in {first_page_emoji, previous_page_emoji} : p > 0} \cup
    {e \in {next_page_emoji, last_page_emoji} : p < (total + 4) \div 5 - 1}

\* C6: when a render has added its controls, the message carries exactly
\* first and previous iff the entry's page is above 0, and next and last iff
\* it is below the last page
C6_ControlVisibility ==
    lastOp.op = "add_reactions" =>
        LET m == lastOp.msg
            entry == get(cache, m)
        IN  /\ entry # None
            /\ msgs[m].content = "embed_message"
            /\ msgs[m].cur_page = entry.cur_page + 1
            /\ msgs[m].total_results = entry.response_data.count
            /\ msgs[m].controls =
                    ControlsFor(entry.cur_page, entry.response_data.count)

\* 23 results, page 2 of 0..4: all four controls
C6_Witness ==
    /\ lastOp.op = "add_reactions"
    /\ get(cache, lastOp.msg) # None
    /\ get(cache, lastOp.msg).response_data.count = 23
    /\ get(cache, lastOp.msg).cur_page = 2
    /\ msgs[lastOp.msg].controls =
            {first_page_emoji, previous_page_emoji, next_page_emoji, last_page_emoji}

\* C7: a reaction that on_reaction_add passes on carries the delta of its
\* control, and the entry written by the step is on the control's page
C7_Deltas ==
    \A t \in Tasks :
        (tasks[t].kind = "reaction" /\ tasks[t].pc \in {"clear", "edit"}) =>
            LET item == tasks[t].cache_item
                p == item.cur_page
                pages == (item.response_data.count + 4) \div 5
                e == tasks[t].emoji
            IN  /\ e = first_page_emoji => tasks[t].page_mod = -p
                /\ e = previous_page_emoji => tasks[t].page_mod = -1
                /\ e = next_page_emoji => tasks[t].page_mod = 1
                /\ e = last_page_emoji => tasks[t].page_mod = pages - 1 - p
                /\ tasks[t].pc = "edit" =>
                    /\ get(cache, tasks[t].msg) # None
                    /\ get(cache, tasks[t].msg).cur_page =
                        CASE e = first_page_emoji -> 0
                          [] e = previous_page_emoji -> p - 1
                          [] e = next_page_emoji -> p + 1
                          [] e = last_page_emoji -> pages - 1

\* "last" from a page in the middle has been written to the cache
C7_Witness ==
    \E t \in Tasks :
        /\ tasks[t].pc = "edit"
        /\ tasks[t].emoji = last_page_emoji
        /\ tasks[t].cache_item.cur_page = 2
        /\ tasks[t].page_mod = 3
        /\ get(cache, tasks[t].msg).cur_page = 5

\* a step that takes a reaction event: RemoteChange is the only action that
\* keeps lastOp, and it changes remote
TakesReaction == lastOp'.op = "on_reaction_add" /\ remote' = remote

\* what a reaction event that is ignored leaves alone: the cache, the
\* messages, the fetch history and the handlers: on_reaction_add returns,
\* so that no handler goes on to fetch or render
Ignored ==
    /\ UNCHANGED <<cache, capacity, msgs, tasks, hist>>
    /\ lastOp'.result = "return"

\* C8: a reaction by another user than the entry's requester changes nothing
C8_OwnershipCheck ==
    [][(TakesReaction /\ lastOp'.event = "other user") => Ignored]_vars

\* a reaction on a cached message was ignored because of its user; the
\* message is on a page where every control of the requester would count
C8_Witness ==
    /\ lastOp.op = "on_reaction_add"
    /\ lastOp.event = "other user"
    /\ lastOp.result = "return"
    /\ lastOp.msg \in Keys(cache)
    /\ get(cache, lastOp.msg).cur_page = 1
    /\ AllIdle

\* C9: a reaction on a message without cache entry changes nothing and
\* raises nothing
C9_CacheMiss ==
    [][(TakesReaction /\ lastOp'.event = "no entry") => Ignored]_vars

\* a reaction on a message whose entry was evicted was ignored
C9_Witness ==
    /\ lastOp.op = "on_reaction_add"
    /\ lastOp.event = "no entry"
    /\ lastOp.result = "return"
    /\ lastOp.msg \in Created
    /\ msgs[lastOp.msg].content = "embed_message"
    /\ lastOp.msg \notin Keys(cache)
    /\ cache # <<>>

\* C10: a reaction of the requester that is no control, or a control that
\* is not offered on the entry's page, changes nothing and raises nothing
C10_InvalidControl ==
    [][(TakesReaction /\ lastOp'.event \in {"no control", "not offered"}) =>
            Ignored]_vars

\* a control of the requester was ignored on the last of several pages
C10_Witness ==
    /\ lastOp.op = "on_reaction_add"
    /\ lastOp.event = "not offered"
    /\ lastOp.result = "return"
    /\ lastOp.msg \in Keys(cache)
    /\ get(cache, lastOp.msg).cur_page = 4
    /\ get(cache, lastOp.msg).response_data.count = 23
    /\ AllIdle

\* a step of _search_from_cache that one of the handlers takes
StepFromCache == lastOp'.op = "search_from_cache" /\ tasks' # tasks

\* C11: a step whose fetch comes back with a non-success status raises
\* BlossomException and leaves the whole cache as it was; after a failed
\* pagination step the entry of the message is the one the handler read, so
\* that the same control of the requester leads to the same target page
C11_FetchFailure ==
    [][(StepFromCache /\ lastOp'.result = "BlossomException") =>
            /\ lastOp'.fetched
            /\ cache' = cache
            /\ lastOp'.kind = "reaction" =>
                /\ \E i \in 1..Len(cache') : cache'[i].msg_id = lastOp'.msg
                /\ \A i \in 1..Len(cache') :
                    cache'[i].msg_id = lastOp'.msg =>
                        LET item == cache'[i].element
                            p == item.cur_page
                            pages == (item.response_data.count + 4) \div 5
                            e == lastOp'.emoji
                        IN  lastOp'.target =
                                CASE e = first_page_emoji -> 0
                                  [] e = previous_page_emoji -> p - 1
                                  [] e = next_page_emoji -> p + 1
                                  [] e = last_page_emoji -> pages - 1]_vars

\* the fifth "next" of a message failed at the remote: the entry is still
\* on page 4 with the first fetch window
C11_Witness ==
    /\ lastOp.op = "search_from_cache"
    /\ lastOp.result = "BlossomException"
    /\ lastOp.kind = "reaction"
    /\ lastOp.emoji = next_page_emoji
    /\ lastOp.target = 5
    /\ lastOp.msg \in Keys(cache)
    /\ get(cache, lastOp.msg).cur_page = 4
    /\ get(cache, lastOp.msg).request_page = 0
    /\ AllIdle

\* C12: a step whose response has count 0 shows the "no results" view, leaves
\* the message without controls, ends the handler and does not write to the
\* cache: every entry, the one of the message included, stays as it was
C12_ZeroResults ==
    [][(StepFromCache /\ lastOp'.result = "no_results") =>
            /\ cache' = cache
            /\ msgs'[lastOp'.msg].content = "no_results"
            /\ msgs'[lastOp'.msg].controls = {}
            /\ \A t \in Tasks : tasks'[t].pc = "idle"]_vars

\* a pagination step of a message with an entry found no results at the
\* remote: the entry still holds the earlier response
C12_Witness ==
    /\ lastOp.op = "search_from_cache"
    /\ lastOp.result = "no_results"
    /\ lastOp.kind = "reaction"
    /\ lastOp.msg \in Keys(cache)
    /\ get(cache, lastOp.msg).response_data.count > 0
    /\ msgs[lastOp.msg].content = "no_results"
    /\ msgs[lastOp.msg].controls = {}
    /\ AllIdle

\* C13: after the submission of a message and n "next" events of the
\* requester that were accepted and handled to their end, the entry of the
\* message is on page n: no step is lost
C13_NoLostUpdate ==
    (AllIdle /\ hist.nexts >= 0 /\ hist.msg \in Keys(cache)) =>
        get(cache, hist.msg).cur_page = hist.nexts

\* C14: every cache entry that holds a response is on one of the display
\* pages of that response: 0 <= cur_page <= ceil(count / 5) - 1
C14_PageInRange ==
    \A i \in 1..Len(cache) :
        LET item == cache[i].element
        IN  item.response_data # None =>
                /\ 0 <= item.cur_page
                /\ item.cur_page <= (item.response_data.count + 4) \div 5 - 1

\* C15: for every target display page and every fetch page size that is a
\* multiple of the display page size, the slice starts at or after 0 and
\* ends within the fetch page size
C15_SliceWithinWindow ==
    lastOp.op = "slice" =>
        /\ 0 <= lastOp.result_offset
        /\ lastOp.result_offset + lastOp.page_size <= lastOp.fetch_size

\* the sizes of the cog, the last display page of the second fetch window:
\* the slice ends where the window ends
C15_Witness ==
    /\ lastOp.op = "slice"
    /\ lastOp.page_size = 5
    /\ lastOp.fetch_size = 25
    /\ lastOp.discord_page = 9
    /\ lastOp.result_offset = 20

\* C16: get changes nothing in the cache and returns the element stored
\* under the key, None if there is none; what is stored under a key is the
\* item of its latest set: a set stores its item under its key or evicts
\* it, and every other entry either stays as it was or is evicted
C16_GetContract ==
    [][/\ lastOp'.op = "get" =>
            /\ cache' = cache
            /\ IF \E i \in 1..Len(cache) : cache[i].msg_id = lastOp'.msg_id
               THEN \E i \in 1..Len(cache) :
                        /\ cache[i].msg_id = lastOp'.msg_id
                        /\ lastOp'.ret = cache[i].element
               ELSE lastOp'.ret = None
       /\ lastOp'.op = "set" =>
            \A i \in 1..Len(cache') :
                /\ \A j \in 1..Len(cache') :
                        cache'[j].msg_id = cache'[i].msg_id => j = i
                /\ IF cache'[i].msg_id = lastOp'.msg_id
                   THEN cache'[i].element = lastOp'.entry
                   ELSE \E j \in 1..Len(cache) : cache[j] = cache'[i]]_vars

\* a get for a key that was set and has been evicted since returned None
C16_Witness ==
    /\ lastOp.op = "get"
    /\ lastOp.ret = None
    /\ mono
    /\ lastOp.msg_id \in SetKeys
    /\ lastOp.msg_id \notin Keys(cache)
    /\ Len(cache) = MaxCacheCapacity

\* C17: from the submission on, before the first fetch is issued, the cache
\* holds an entry for the new message, on page 0 and without response
C17_InitialEntry ==
    \A t \in Tasks :
        (tasks[t].kind = "search" /\ tasks[t].pc = "clear") =>
            /\ tasks[t].msg \in Keys(cache)
            /\ get(cache, tasks[t].msg).cur_page = 0
            /\ get(cache, tasks[t].msg).response_data = None

\* C17, amended: the initial item is handed to the first step and not
\* written to the cache: the message has no entry before the first fetch,
\* none when that fetch fails or finds nothing, and when the fetch succeeds
\* with results its first entry is page 0 with the fetched response
C17_FirstWrite ==
    [][\A t \in Tasks :
        /\ (tasks'[t].kind = "search" /\ tasks'[t].pc \in {"send", "clear"}) =>
                tasks'[t].msg \notin Keys(cache')
        /\ (tasks[t].kind = "search" /\ tasks[t].pc = "clear"
                /\ tasks'[t].pc = "idle") =>
                /\ lastOp'.result \in {"BlossomException", "no_results"}
                /\ tasks[t].msg \notin Keys(cache')
        /\ (tasks[t].kind = "search" /\ tasks[t].pc = "clear"
                /\ tasks'[t].pc = "edit") =>
                /\ tasks[t].msg \in Keys(cache')
                /\ get(cache', tasks[t].msg).cur_page = 0
                /\ get(cache', tasks[t].msg).request_page = 0
                /\ get(cache', tasks[t].msg).response_data # None
                /\ get(cache', tasks[t].msg).response_data.count > 0
                /\ get(cache', tasks[t].msg).response_data =
                        tasks'[t].response_data]_vars

\* the first fetch of the second message failed: the cache holds the entry
\* of the first message only
C17_Witness ==
    /\ lastOp.op = "search_from_cache"
    /\ lastOp.result = "BlossomException"
    /\ lastOp.kind = "search"
    /\ lastOp.msg = 2
    /\ Keys(cache) = {1}
    /\ AllIdle

\* the start of the display slice of the step that task t has rendered
SliceStart(t) ==
    LET p == tasks[t].cache_item.cur_page + tasks[t].page_mod
    IN  p * 5 - ((p * 5) \div 25) * 25

\* C18: the display slice of a step that rendered lies within the fetched
\* results: it ends at or before their end
C18_SliceInBounds ==
    \A t \in Tasks :
        tasks[t].pc = "edit" =>
            SliceStart(t) + 5 <= Len(tasks[t].response_data.results)

\* C18, amended: the display slice is clipped to the fetched results: the
\* step renders the results from the slice start up to five further on or
\* to the end of the array, whichever comes first, in order; that is fewer
\* than five on a partially filled window, and none past the array
C18_SliceClipped ==
    \A t \in Tasks :
        tasks[t].pc = "edit" =>
            LET start == SliceStart(t)
                res == tasks[t].response_data.results
                left == Len(res) - start
                n == IF left > 5 THEN 5 ELSE IF left < 0 THEN 0 ELSE left
                items == msgs[tasks[t].msg].items
            IN  /\ start >= 0
                /\ Len(items) = n
                /\ \A i \in 1..n : items[i].res = res[start + i]

\* 23 results, the last display page: the slice 20..25 of 23 fetched
\* results, three of them rendered
C18_Witness ==
    \E t \in Tasks :
        /\ tasks[t].pc = "edit"
        /\ SliceStart(t) = 20
        /\ Len(tasks[t].response_data.results) = 23
        /\ Len(msgs[tasks[t].msg].items) = 3

\* C19: every cache entry holds the response of the fetch for its request
\* page (the results from position request_page * 25 + 1 of the query on),
\* and its request page is the fetch window of its display page
C19_ResponseMatchesPage ==
    \A i \in 1..Len(cache) :
        LET item == cache[i].element
        IN  /\ item.response_data # None
            /\ item.request_page = (item.cur_page * 5) \div 25
            /\ item.response_data.results # <<>>
            /\ Len(item.response_data.results) <= 25
            /\ \A k \in 1..Len(item.response_data.results) :
                    item.response_data.results[k] = item.request_page * 25 + k

\* an entry in the second fetch window, reached from the first
C19_Witness ==
    /\ lastOp.op = "add_reactions"
    /\ lastOp.msg \in Keys(cache)
    /\ get(cache, lastOp.msg).cur_page = 5
    /\ get(cache, lastOp.msg).request_page = 1
    /\ get(cache, lastOp.msg).response_data.results[1] = 26
    /\ msgs[lastOp.msg].controls = {first_page_emoji, previous_page_emoji}

\* C20: with a remote list that does not change, the items a step renders
\* for display page p are the results at the positions p * 5 + 1 .. min((p + 1) * 5,
\* count) of the newest-first order, in order, numbered by their positions,
\* from a fetched and from a cached response
C20_RenderedItems ==
    \A t \in Tasks :
        tasks[t].pc = "edit" =>
            LET p == tasks[t].cache_item.cur_page + tasks[t].page_mod
                last == IF (p + 1) * 5 < remote THEN (p + 1) * 5 ELSE remote
                items == msgs[tasks[t].msg].items
            IN  /\ Len(items) = last - p * 5
                /\ \A i \in 1..Len(items) :
                        /\ items[i].num = p * 5 + i
                        /\ items[i].res = p * 5 + i

\* page 4 of 23 results, rendered from the cached window: the results 21,
\* 22 and 23
C20_Witness ==
    \E t \in Tasks :
        /\ tasks[t].pc = "edit"
        /\ remote = 23
        /\ tasks[t].response_data.count = 23
        /\ tasks[t].cache_item.cur_page + tasks[t].page_mod = 4
        /\ lastOp.op = "search_from_cache"
        /\ ~lastOp.fetched
        /\ Len(msgs[tasks[t].msg].items) = 3
        /\ msgs[tasks[t].msg].items[3] = [num |-> 23, res |-> 23]

\* C21: the cache loses entries only in a set: a set on key k removes at
\* most one entry of another key, removes nothing when the size after the
\* insertion is within the capacity, and every entry of another key that
\* is in the cache afterwards is as it was before, item and last_modified;
\* a get removes nothing
C21_EvictionOnly ==
    [][/\ lastOp'.op = "get" => cache' = cache
       /\ lastOp'.op = "set" =>
            LET k == lastOp'.msg_id
                before == {cache[i].msg_id : i \in 1..Len(cache)}
                after == {cache'[i].msg_id : i \in 1..Len(cache')}
                inserted == before \cup {k}
            IN  /\ after \subseteq inserted
                /\ Cardinality((before \ {k}) \ after) <= 1
                /\ Cardinality(inserted) <= capacity => after = inserted
                /\ k \in before => after = before
                /\ \A i \in 1..Len(cache') :
                        cache'[i].msg_id # k =>
                            \E j \in 1..Len(cache) : cache[j] = cache'[i]]_vars

\* a set on a new key has evicted the entry of another key from a full
\* cache and left a third one in place
C21_Witness ==
    /\ lastOp.op = "set"
    /\ mono
    /\ capacity = 2
    /\ lastOp.msg_id \in Keys(cache)
    /\ Len(cache) = 2
    /\ Cardinality(SetKeys) = 3
    /\ latest[lastOp.msg_id] > 0

\* C22: every cache entry carries the user who issued the /search command
\* of its message, whatever pagination steps have written it
C22_RequesterKept ==
    \A i \in 1..Len(cache) :
        cache[i].element.discord_user_id = msgs[cache[i].msg_id].author

\* the second message, submitted by the second user, has been paginated
\* and its entry has replaced the one of the first message
C22_Witness ==
    /\ Keys(cache) = {2}
    /\ msgs[1].author = "u1"
    /\ msgs[2].author = "u2"
    /\ get(cache, 2).discord_user_id = "u2"
    /\ get(cache, 2).cur_page = 1
    /\ lastOp.op = "on_reaction_add"
    /\ lastOp.event = "other user"

\* C23: while the fetch of one message is on its way, a control of the
\* requester of another message that has an entry can be handled
C23_FetchDoesNotBlock ==
    \A t \in Tasks : \A m \in MsgIds : \A e \in Emojis : \A u \in Users :
        (/\ tasks[t].pc = "fetch"
         /\ m # tasks[t].msg
         /\ SomeIdle
         /\ EventKind(cache, m, e, u) = "offered") =>
            ENABLED react(m, e, u)

\* C24: what a set leaves in the cache is determined by the cache before
\* and the arguments: with the key stored in its old place in the mapping,
\* or behind all others if it is new, the set evicts nothing when the size
\* is within the capacity, and else the entry with the oldest last_modified,
\* among several oldest ones the one that comes first in the mapping
C24_TieBreak ==
    [][lastOp'.op = "set" =>
        LET k == lastOp'.msg_id
            before == {cache[i].msg_id : i \in 1..Len(cache)}
            after == {cache'[i].msg_id : i \in 1..Len(cache')}
            inserted == before \cup {k}
            pos(x) == IF x \in before
                      THEN CHOOSE i \in 1..Len(cache) : cache[i].msg_id = x
                      ELSE Len(cache) + 1
            tm(x) == IF x = k THEN lastOp'.time ELSE cache[pos(x)].last_modified
            first(v) == \A x \in inserted \ {v} :
                            \/ tm(v) < tm(x)
                            \/ tm(v) = tm(x) /\ pos(v) < pos(x)
        IN  IF Cardinality(inserted) <= capacity
            THEN after = inserted
            ELSE \E v \in inserted : first(v) /\ after = inserted \ {v}]_vars

\* a set has evicted the entry that came first in the mapping among two
\* entries with the same last_modified, and the entry was not the new one
C24_Witness ==
    /\ lastOp.op = "set"
    /\ capacity = 2
    /\ Len(cache) = 2
    /\ \E x \in lastOp.evicted :
        /\ x[1] # lastOp.msg_id
        /\ \E i \in 1..Len(cache) :
            /\ cache[i].last_modified = x[2]
            /\ cache[i].msg_id # lastOp.msg_id

\* C25: right after a set on a cache with capacity >= 1, get returns the
\* entry that was set, whatever the time
C25_SetThenGet ==
    (lastOp.op = "set" /\ capacity >= 1) =>
        /\ \E i \in 1..Len(cache) : cache[i].msg_id = lastOp.msg_id
        /\ \A i \in 1..Len(cache) :
            cache[i].msg_id = lastOp.msg_id => cache[i].element = lastOp.entry

\* C25, amended: right after a set, the cache holds the entry that was set
\* under its key, unless the key was new, the cache was full and the time
\* is older than the last_modified of every entry in it: then the entry
\* just written is the one that was evicted, and get returns None
C25_SetThenGetUnlessOldest ==
    [][lastOp'.op = "set" =>
        LET k == lastOp'.msg_id
            oldest == /\ \A i \in 1..Len(cache) : cache[i].msg_id # k
                      /\ Len(cache) >= capacity
                      /\ \A i \in 1..Len(cache) :
                            cache[i].last_modified > lastOp'.time
        IN  IF oldest
            THEN \A i \in 1..Len(cache') : cache'[i].msg_id # k
            ELSE \E i \in 1..Len(cache') :
                    /\ cache'[i].msg_id = k
                    /\ cache'[i].element = lastOp'.entry
                    /\ cache'[i].last_modified = lastOp'.time]_vars

\* a set with a time older than the one entry of a full cache: the new
\* entry is gone and the old one is still there
C25_Witness ==
    /\ lastOp.op = "set"
    /\ capacity = 1
    /\ Len(cache) = 1
    /\ cache[1].msg_id # lastOp.msg_id
    /\ cache[1].last_modified > lastOp.time
    /\ lastOp.evicted = {<<lastOp.msg_id, lastOp.time>>}

\* C26: every entry in the cache of the cog holds a response, and the
\* response has a count above 0
C26_StoredResponse ==
    \A i \in 1..Len(cache) :
        /\ cache[i].element.response_data # None
        /\ cache[i].element.response_data.count > 0

\* the /search of the second message found nothing: the cache holds the
\* entry of the first message only, with its 26 results
C26_Witness ==
    /\ lastOp.op = "search_from_cache"
    /\ lastOp.result = "no_results"
    /\ lastOp.kind = "search"
    /\ lastOp.msg = 2
    /\ Len(cache) = 1
    /\ cache[1].msg_id = 1
    /\ cache[1].element.response_data.count = 26

\* C27: a handler that is about to decide on the fetch has cleared the
\* controls of its message; after a step that ended in BlossomException or
\* in the no_results view the message has no controls, and after such a
\* pagination step the entry of the message is still in the cache and a
\* control of its requester is still taken
C27_ControlsCleared ==
    /\ \A t \in Tasks :
        tasks[t].pc = "clear" => msgs[tasks[t].msg].controls = {}
    /\ (/\ lastOp.op = "search_from_cache"
        /\ lastOp.result \in {"BlossomException", "no_results"}) =>
            /\ msgs[lastOp.msg].controls = {}
            /\ lastOp.kind = "reaction" =>
                /\ \E i \in 1..Len(cache) : cache[i].msg_id = lastOp.msg
                /\ \E e \in Emojis :
                    ENABLED (/\ on_reaction_add(FreeTask, lastOp.msg, e,
                                    get(cache, lastOp.msg).discord_user_id)
                             /\ lastOp'.result = "paginate")

\* "last" on page 0 failed at the remote: the message shows the first page
\* without any control and its entry is still on page 0
C27_Witness ==
    /\ lastOp.op = "search_from_cache"
    /\ lastOp.result = "BlossomException"
    /\ lastOp.kind = "reaction"
    /\ lastOp.emoji = last_page_emoji
    /\ msgs[lastOp.msg].content = "embed_message"
    /\ msgs[lastOp.msg].cur_page = 1
    /\ msgs[lastOp.msg].controls = {}
    /\ lastOp.msg \in Keys(cache)
    /\ get(cache, lastOp.msg).cur_page = 0

\* the entry of the one message is on the last display page of the
\* remote's results, rendered, without "next" and "last"
OnLastPage ==
    /\ AllIdle
    /\ \E i \in 1..Len(cache) :
        /\ cache[i].msg_id = 1
        /\ cache[i].element.cur_page = (remote + 4) \div 5 - 1
    /\ msgs[1].cur_page = (remote + 4) \div 5
    /\ msgs[1].controls \cap {next_page_emoji, last_page_emoji} = {}

\* C28: once the query is submitted, the requester's "next" events lead to
\* the last display page, where "next" and "last" are not offered, and
\* from then on the entry stays on that page
C28_ReachesLastPage == [](Created # {} => <>[]OnLastPage)

\* 31 results: the entry is on page 6 and a further "next" of the
\* requester was ignored
C28_Witness ==
    /\ OnLastPage
    /\ remote = 31
    /\ msgs[1].cur_page = 7
    /\ lastOp.op = "on_reaction_add"
    /\ lastOp.event = "not offered"
    /\ lastOp.result = "return"

\* C29: the description shows min(4, total) occurrences of the query, total
\* being the number of its case-insensitive occurrences in the text, and
\* has the note of N more occurrences iff total > 4, with N = total - 4
C29_Occurrences ==
    lastOp.op = "describe" =>
        LET r == lastOp.result
        IN  /\ r.shown = IF r.total < 4 THEN r.total ELSE 4
            /\ r.more >= 0 <=> r.total > 4
            /\ r.more >= 0 => r.more = r.total - 4

====
